---- MODULE Spec2Model ----
(***************************************************************************)
(* The tiered model router of backup/deprecated-files/python/              *)
(* llm_switcher.py (class LLMRouter): the model catalog, the selection     *)
(* policy, the single-item dispatch and the chunked batch dispatch; and     *)
(* the command-line scripts (main of llm_switcher.py, run_model.py).       *)
(*                                                                         *)
(* Money is counted in units of 1e-8 USD, so that every cost_per_token of  *)
(* the catalog (0.00000025 ... 0.000075) is an integer; a budget is an     *)
(* integer number of the same units.  An optional value (Python's None or  *)
(* a value) is a sequence of length 0 or 1.                                *)
(***************************************************************************)
EXTENDS Integers, Sequences, FiniteSets, TLC

VARIABLES
    models,     \* self.models: tier -> list of ModelConfig
    session,    \* self.session: "none" (None), "open", "closed"
    pc,         \* where the caller's coroutine stands
    call,       \* the arguments of the call in progress (or last finished)
    tasks,      \* one entry per content item of the call: its dispatch coroutine
    i,          \* process_batch: the loop variable i
    results,    \* process_batch: the list results
    trace,      \* process_batch: the chunks scheduled and the sleeps taken, in order
    ret,        \* what the last call gave back to its caller
    cli,        \* the command-line process that drives the router, if one does
    posts,      \* the number of session.post calls the call in progress has made
    qm          \* the quota tracker: its database, the clock and its callers

vars == <<models, session, pc, call, tasks, i, results, trace, ret, cli, posts, qm>>

(***************************************************************************)
(* Bounds of the model.                                                    *)
(***************************************************************************)
\* process_batch is called with 0 .. MaxItems content items
MaxItems == 21
\* a response may overtake at most MaxReorder - 1 earlier requests in flight
MaxReorder == 2

(***************************************************************************)
(* Enumerations and optional values.                                       *)
(***************************************************************************)
None == <<>>
Some(v) == <<v>>

\* class UserTier
FREE == "free"
PRO == "pro"
PREMIUM == "premium"
UserTier == {FREE, PRO, PREMIUM}

\* class AIOperation
CATEGORIZE == "categorize"
SUMMARIZE == "summarize"
EXTRACT_INSIGHTS == "extract_insights"
GENERATE_TAGS == "generate_tags"
AIOperation == {CATEGORIZE, SUMMARIZE, EXTRACT_INSIGHTS, GENERATE_TAGS}

Endpoint == "https://openrouter.ai/api/v1/chat/completions"

\* dataclass ModelConfig (supports_json defaults to True)
ModelConfig(name, cost_per_token, max_tokens) ==
    [name |-> name, cost_per_token |-> cost_per_token, max_tokens |-> max_tokens,
     api_endpoint |-> Endpoint, supports_json |-> TRUE]

\* LLMRouter._initialize_models; cost_per_token in 1e-8 USD
initialize_models ==
    [t \in UserTier |->
        CASE t = FREE ->
                <<ModelConfig("anthropic/claude-3-haiku", 25, 4000),
                  ModelConfig("openai/gpt-3.5-turbo", 200, 4000)>>
          [] t = PRO ->
                <<ModelConfig("anthropic/claude-3-sonnet", 1500, 4000),
                  ModelConfig("openai/gpt-4", 3000, 8000),
                  ModelConfig("openai/gpt-3.5-turbo", 200, 4000)>>
          [] t = PREMIUM ->
                <<ModelConfig("anthropic/claude-3-opus", 7500, 4000),
                  ModelConfig("openai/gpt-4", 3000, 8000),
                  ModelConfig("anthropic/claude-3-sonnet", 1500, 4000)>>]

(***************************************************************************)
(* Python helpers used by select_optimal_model.                            *)
(***************************************************************************)
Min2(a, b) == IF a <= b THEN a ELSE b

\* bool(x) of an Optional[float]: None and 0 are false
Truthy(opt) == opt # None /\ opt[1] # 0

\* an insertion that puts x in front of the elements equal to it when the
\* order is descending (a sort that is not stable under reverse=True)
RECURSIVE InsertByCost_unstable(_, _, _)
InsertByCost_unstable(x, s, reverse) ==
    IF s = <<>> THEN <<x>>
    ELSE IF (IF reverse THEN Head(s).cost_per_token > x.cost_per_token
                        ELSE Head(s).cost_per_token <= x.cost_per_token)
         THEN <<Head(s)>> \o InsertByCost_unstable(x, Tail(s), reverse)
         ELSE <<x>> \o s

\* one step of a stable insertion sort by cost_per_token: x goes behind every
\* element that sorted() keeps in front of it (equal keys keep their order,
\* with and without reverse=True)
RECURSIVE InsertByCost(_, _, _)
InsertByCost(x, s, reverse) ==
    IF s = <<>> THEN <<x>>
    ELSE IF (IF reverse THEN Head(s).cost_per_token >= x.cost_per_token
                        ELSE Head(s).cost_per_token <= x.cost_per_token)
         THEN <<Head(s)>> \o InsertByCost(x, Tail(s), reverse)
         ELSE <<x>> \o s

\* sorted(lst, key=lambda m: m.cost_per_token, reverse=reverse)
RECURSIVE SortedByCost(_, _)
SortedByCost(lst, reverse) ==
    IF lst = <<>> THEN <<>>
    ELSE InsertByCost(lst[Len(lst)], SortedByCost(SubSeq(lst, 1, Len(lst) - 1), reverse),
                      reverse)

\* min(lst, key=lambda m: m.cost_per_token): the first element of least cost
RECURSIVE MinByCost(_)
MinByCost(lst) ==
    IF Len(lst) = 1 THEN lst[1]
    ELSE LET m == MinByCost(SubSeq(lst, 1, Len(lst) - 1))
         IN IF lst[Len(lst)].cost_per_token < m.cost_per_token THEN lst[Len(lst)] ELSE m

\* estimated_tokens = min(content_length * 2, 500)
estimated_tokens(content_length) == Min2(content_length * 2, 500)

(***************************************************************************)
(* LLMRouter.select_optimal_model, on the catalog ms (self.models).        *)
(***************************************************************************)
\* a selection that forgets to sort
OrderFor_unsorted(lst, operation) == lst

\* the reordering of lines 116-124: ascending for the cheap operations,
\* descending for the quality-sensitive ones, untouched otherwise
OrderFor(lst, operation) ==
    IF operation \in {CATEGORIZE, GENERATE_TAGS} THEN SortedByCost(lst, FALSE)
    ELSE IF operation \in {EXTRACT_INSIGHTS, SUMMARIZE} THEN SortedByCost(lst, TRUE)
    ELSE lst

\* a selection that forgets the budget filter
ApplyBudget_ignored(lst, content_length, budget_constraint) == lst

\* the budget filter of lines 126-130
ApplyBudget(lst, content_length, budget_constraint) ==
    IF Truthy(budget_constraint)
    THEN LET WithinBudget(m) ==
                 m.cost_per_token * estimated_tokens(content_length) <= budget_constraint[1]
         IN SelectSeq(lst, WithinBudget)
    ELSE lst

\* the content-length filter of line 133
ApplyLength(lst, content_length) ==
    LET Fits(m) == m.max_tokens >= content_length
    IN SelectSeq(lst, Fits)

select_optimal_model(ms, content_length, user_tier, operation, budget_constraint) ==
    LET available_models ==
            ApplyLength(ApplyBudget(OrderFor(ms[user_tier], operation),
                                    content_length, budget_constraint),
                        content_length)
    IN IF available_models = <<>>
       THEN MinByCost(ms[user_tier])
       ELSE available_models[1]

\* a selection that stores its filtered list back into the catalog
\* (self.models[user_tier] = available_models)
models_filtered_in_place(ms, content_length, user_tier, operation, budget_constraint) ==
    LET kept == ApplyLength(ApplyBudget(ms[user_tier], content_length, budget_constraint),
                            content_length)
    IN IF kept = <<>> THEN ms ELSE [ms EXCEPT ![user_tier] = kept]

\* a selection that sorts the catalog's own list (available_models.sort(...))
models_sorted_in_place(ms, content_length, user_tier, operation, budget_constraint) ==
    [ms EXCEPT ![user_tier] = OrderFor(ms[user_tier], operation)]

\* what a call of select_optimal_model leaves in self.models: the method works
\* on copies (sorted() and list comprehensions) and assigns nothing to self
models_after_select(ms, content_length, user_tier, operation, budget_constraint) == ms

(***************************************************************************)
(* Values: ProcessingResult, exception objects, the outcome of a coroutine.*)
(***************************************************************************)
\* dataclass ProcessingResult
ProcessingResult(success, result, error, model_used, tokens_used, cost) ==
    [class |-> "ProcessingResult", success |-> success, result |-> result,
     error |-> error, model_used |-> model_used, tokens_used |-> tokens_used,
     cost |-> cost]

\* an exception object; str(e) is its message
Exc(class, message) == [class |-> class, message |-> message]

\* isinstance(x, Exception): asyncio.CancelledError derives from BaseException,
\* every other exception class of the model from Exception
IsException(x) == x.class \notin {"ProcessingResult", "CancelledError"}

\* how a coroutine ends: it returns a value or an exception leaves it
Return(v) == [kind |-> "return", value |-> v]
Raise(e) == [kind |-> "raise", value |-> e]
NoOutcome == [kind |-> "none", value |-> None]

(***************************************************************************)
(* The environment of one dispatch.  A content item is [len, fate]: len is *)
(* len(content), fate says what happens to the dispatch of this item:      *)
(*   ok            200, JSON text in choices[0], usage.total_tokens = 42   *)
(*   ok_text       200, plain text in choices[0], no usage field           *)
(*   session_fault aiohttp.ClientSession() raises (if it is called)        *)
(*   select_fault  len(content) raises (content is not a string)           *)
(*   prompt_fault  create_prompt raises                                    *)
(*   send_fault    session.post raises a connection error                  *)
(*   cancelled     the awaited request raises asyncio.CancelledError       *)
(*   http_error    status 429 with a body                                  *)
(*   body_fault    200 and response.json() raises                          *)
(*   no_choices    200 and an empty choice list                            *)
(*   extract_fault 200 and choices[0] has no message                       *)
(*   ok_nonconforming 200, choices[0] is valid JSON of another shape       *)
(*   server_error  status 500 with a body                                  *)
(*   error_body_fault status 429 and response.text() raises                *)
(*   timeout       the awaited request raises asyncio.TimeoutError()       *)
(*   silent        the provider never answers the request                  *)
(***************************************************************************)
Fates == {"ok", "ok_text", "session_fault", "select_fault", "prompt_fault",
          "send_fault", "cancelled", "http_error", "body_fault", "no_choices",
          "extract_fault", "ok_nonconforming", "server_error", "error_body_fault",
          "timeout", "silent"}

\* whether the request of an item with this fate is ever answered, by a
\* response or by an exception raised in session.post
answers(fate) == fate # "silent"

\* the provider's response to the request of an item with this fate
Response(fate) ==
    [status  |-> CASE fate \in {"http_error", "error_body_fault"} -> "429"
                   [] fate = "server_error" -> "500"
                   [] OTHER -> "200",
     text    |-> CASE fate = "http_error" -> "rate limited"
                   [] fate = "server_error" -> "upstream down"
                   [] OTHER -> "",
     text_readable |-> fate # "error_body_fault",
     decodes |-> fate # "body_fault",
     choices |-> IF fate = "no_choices" THEN "empty" ELSE "present",
     content |-> CASE fate = "extract_fault" -> None
                   [] fate = "ok_text" ->
                        Some([json |-> FALSE, conforms |-> FALSE, raw |-> "plain words"])
                   [] fate = "ok_nonconforming" ->
                        Some([json |-> TRUE, conforms |-> FALSE, raw |-> "[1, 2]"])
                   [] OTHER ->
                        Some([json |-> TRUE, conforms |-> TRUE,
                              raw |-> "{category: Business}"]),
     usage   |-> IF fate = "ok_text" THEN None ELSE Some(42)]

\* what session.post hands to the coroutine: a response, or nothing when the
\* await ends in an exception
received(fate) ==
    IF fate \in {"cancelled", "send_fault", "timeout"} THEN None
    ELSE Some(Response(fate))

(***************************************************************************)
(* LLMRouter.process_content, in the two steps the event loop runs it in:  *)
(* first_step up to the suspension in session.post, second_step from the   *)
(* arrival of the response to the return.                                  *)
(***************************************************************************)
\* a dispatch coroutine: state is "absent" (not created), "created",
\* "inflight" (suspended in session.post) or "done"; response is what
\* session.post gave it, once it has
Task(state, model, request, out) ==
    [state |-> state, model |-> model, request |-> request, out |-> out,
     response |-> None]

AbsentTask == Task("absent", None, None, NoOutcome)
CreatedTask == Task("created", None, None, NoOutcome)

\* the except clause of lines 269-274
caught(message, model) ==
    Return(ProcessingResult(FALSE, None, Some(message),
                            IF model = None THEN None ELSE Some(model[1].name),
                            None, None))

\* a request that asks for the model's whole context as output length
request_for_unbounded(model, operation) ==
    [url |-> model.api_endpoint,
     model |-> model.name,
     max_tokens |-> model.max_tokens,
     temperature |-> IF operation = CATEGORIZE THEN "0.3" ELSE "0.7"]

\* the request of lines 208-227
request_for(model, operation) ==
    [url |-> model.api_endpoint,
     model |-> model.name,
     max_tokens |-> Min2(500, model.max_tokens),
     temperature |-> IF operation = CATEGORIZE THEN "0.3" ELSE "0.7"]

\* a dispatch that creates a new session whether or not the router has one
session_always_created(sess, fate) == IF fate # "session_fault" THEN "open" ELSE sess

\* a dispatch that replaces a closed session by a new one
session_recreated_after_close(sess, fate) ==
    IF sess \in {"none", "closed"} /\ fate # "session_fault" THEN "open" ELSE sess

\* lines 197-198: the lazy creation of the session
session_after_check(sess, fate) ==
    IF sess = "none" /\ fate # "session_fault" THEN "open" ELSE sess

\* lines 197-227, up to the point where the request is on the wire: the task
\* as this step leaves it
first_step(sess, ms, content, operation, user_tier, budget_constraint) ==
    IF sess = "none" /\ content.fate = "session_fault"
    THEN \* line 198 is outside the try block
         Task("done", None, None, Raise(Exc("ClientError", <<"cannot create session">>)))
    ELSE IF content.fate = "select_fault"
    THEN Task("done", None, None, caught(<<"object has no len()">>, None))
    ELSE LET model == select_optimal_model(ms, content.len, user_tier, operation,
                                           budget_constraint)
         IN IF content.fate = "prompt_fault"
            THEN Task("done", Some(model), None, caught(<<"prompt">>, Some(model)))
            ELSE IF session_after_check(sess, content.fate) = "closed"
            THEN Task("done", Some(model), Some(request_for(model, operation)),
                      caught(<<"Session is closed">>, Some(model)))
            ELSE Task("inflight", Some(model), Some(request_for(model, operation)),
                      NoOutcome)

\* a parse that is attempted for every operation
parse_result_always(operation, content) ==
    IF content.json
    THEN [form |-> "json", value |-> content.raw]
    ELSE [form |-> "text", value |-> content.raw]

\* lines 251-259: the payload of a successful result
parse_result(operation, content) ==
    IF operation \in {CATEGORIZE, EXTRACT_INSIGHTS, GENERATE_TAGS} /\ content.json
    THEN [form |-> "json", value |-> content.raw]
    ELSE [form |-> "text", value |-> content.raw]

\* a status check that takes only server errors for failures
failed_status_server_only(status) == status = "500"

\* line 228: if response.status != 200
failed_status(status) == status # "200"

\* a cost that takes cost_per_token for a price per thousand tokens
cost_per_thousand(tokens_used, model) == (tokens_used * model.cost_per_token) \div 1000

\* line 249: cost = tokens_used * model.cost_per_token
cost_of(tokens_used, model) == tokens_used * model.cost_per_token

\* lines 227-274, from the response on: the outcome of the coroutine
second_step(task, content, operation) ==
    LET model == task.model[1]
        response == Response(content.fate)
    IN  IF content.fate = "cancelled"
        THEN Raise(Exc("CancelledError", <<>>))
        ELSE IF content.fate = "send_fault"
        THEN caught(<<"Cannot connect to host">>, task.model)
        ELSE IF content.fate = "timeout"
        THEN \* str(asyncio.TimeoutError()) is the empty string
             caught(<<>>, task.model)
        ELSE IF failed_status(response.status)
        THEN IF response.text_readable
             THEN Return(ProcessingResult(FALSE, None,
                             Some(<<"API request failed with status", response.status,
                                    response.text>>),
                             Some(model.name), None, None))
             ELSE caught(<<"Response payload is not completed">>, task.model)
        ELSE IF ~response.decodes
        THEN caught(<<"Attempt to decode JSON with unexpected mimetype">>, task.model)
        ELSE IF response.choices # "present"
        THEN Return(ProcessingResult(FALSE, None, Some(<<"No response from model">>),
                                     Some(model.name), None, None))
        ELSE IF response.content = None
        THEN caught(<<"message">>, task.model)
        ELSE LET tokens_used == IF response.usage = None THEN 0 ELSE response.usage[1]
             IN Return(ProcessingResult(TRUE,
                            Some(parse_result(operation, response.content[1])),
                            None, Some(model.name), Some(tokens_used),
                            Some(cost_of(tokens_used, model))))

(***************************************************************************)
(* LLMRouter.process_batch.                                                *)
(***************************************************************************)
\* chunk sizes with the tiers mixed up
batch_size_swapped(user_tier) == IF user_tier = FREE THEN 20 ELSE 5

\* line 282
batch_size(user_tier) == IF user_tier = FREE THEN 5 ELSE 20

\* a loop that also sleeps after a last chunk that is full
should_sleep_inclusive(offset, size, n) == offset + size <= n

\* line 305: whether the loop sleeps after the chunk that starts at offset
should_sleep(offset, size, n) == offset + size < n

\* what asyncio.gather(..., return_exceptions=True) hands back for one child:
\* its return value, or the exception object it ended with
gathered(out) == out.value

\* a loop that skips the items that raised instead of converting them
RECURSIVE collect_dropping_faults(_)
collect_dropping_faults(batch_results) ==
    IF batch_results = <<>> THEN <<>>
    ELSE (IF IsException(Head(batch_results)) THEN <<>> ELSE <<Head(batch_results)>>)
         \o collect_dropping_faults(Tail(batch_results))

\* lines 295-302: the results appended for one chunk
RECURSIVE collect(_)
collect(batch_results) ==
    IF batch_results = <<>> THEN <<>>
    ELSE LET result == Head(batch_results)
         IN <<IF IsException(result)
              THEN ProcessingResult(FALSE, None, Some(result.message), None, None, None)
              ELSE result>> \o collect(Tail(batch_results))

(***************************************************************************)
(* Inputs the calls are made with.                                         *)
(***************************************************************************)
\* content lengths around the limits 250 (estimate cap), 4000 and 8000
Lengths == {0, 1, 250, 4000, 4001, 8001}

\* budgets in 1e-8 USD: none, negative, zero, and the costs of the catalog's
\* models for 2 and for 500 estimated tokens
Budgets == {None, Some(-1), Some(0), Some(50), Some(399), Some(3000), Some(12500),
            Some(750000), Some(3750000)}

\* content items of single dispatches
Contents == [len : {1, 4001}, fate : Fates]
DispatchBudgets == {None, Some(0), Some(50)}

\* the fates of the items of a batch, repeated over its length: returned
\* successes, returned failures, and the two faults that leave process_content
BatchPatterns == {<<"ok">>,
                  <<"ok", "http_error", "cancelled">>,
                  <<"session_fault", "ok", "http_error">>,
                  <<"session_fault", "cancelled">>,
                  <<"ok", "timeout", "silent">>}
BatchOperations == {CATEGORIZE, SUMMARIZE}
\* one tier of each chunk size (line 282)
BatchTiers == {FREE, PRO}

\* the batch of n items of length 1 whose fates repeat the pattern p
Pattern(n, p) == [k \in 1..n |-> [len |-> 1, fate |-> p[((k - 1) % Len(p)) + 1]]]

NoCall == [op |-> "none", contents |-> <<>>, content_length |-> 0,
           operation |-> CATEGORIZE, user_tier |-> FREE, budget_constraint |-> None]

Call(op, contents, content_length, operation, user_tier, budget_constraint) ==
    [op |-> op, contents |-> contents, content_length |-> content_length,
     operation |-> operation, user_tier |-> user_tier,
     budget_constraint |-> budget_constraint]

\* a dispatch that sends its request again when the result is a failure
posts_retry_on_failure(out) == IF out.kind = "return" /\ ~out.value.success THEN 1 ELSE 0

\* line 227: the one session.post of process_content, reached by a first step
\* that leaves its request on the wire
posts_in_first_step(task) == IF task.state = "inflight" THEN 1 ELSE 0

\* lines 228-274: every path from the response on returns or raises, none
\* calls session.post again
posts_in_second_step(out) == 0

\* no quota tracker is in use
NoQuotaManager == [db |-> <<>>, now |-> 0, last |-> <<>>, clients |-> <<>>]

\* the router is used as a library: no command-line process
NoCli == [script |-> "none", stage |-> "none", env |-> <<>>, router |-> TRUE,
          requests |-> 0, stdout |-> <<>>, stderr |-> <<>>, exit_status |-> None]

(***************************************************************************)
(* The state after LLMRouter.__init__.                                     *)
(***************************************************************************)
Init ==
    /\ cli = NoCli
    /\ posts = 0
    /\ qm = NoQuotaManager
    /\ models = initialize_models
    /\ session = "none"
    /\ pc = "idle"
    /\ call = NoCall
    /\ tasks = <<>>
    /\ i = 0
    /\ results = <<>>
    /\ trace = <<>>
    /\ ret = NoOutcome

\* whether the first step of a dispatch gets as far as select_optimal_model
reaches_select(sess, content) ==
    ~(sess = "none" /\ content.fate = "session_fault") /\ content.fate # "select_fault"

\* self.models after the first step of a dispatch
models_after_first_step(sess, ms, content, operation, user_tier, budget_constraint) ==
    IF reaches_select(sess, content)
    THEN models_after_select(ms, content.len, user_tier, operation, budget_constraint)
    ELSE ms

(***************************************************************************)
(* Calls of the caller.                                                    *)
(***************************************************************************)
\* router.select_optimal_model(content_length, user_tier, operation, budget)
Select ==
    \E content_length \in Lengths, user_tier \in UserTier, operation \in AIOperation,
       budget_constraint \in Budgets :
        /\ pc = "idle"
        /\ call' = Call("select_optimal_model", <<>>, content_length, operation,
                        user_tier, budget_constraint)
        /\ ret' = Return(select_optimal_model(models, content_length, user_tier,
                                              operation, budget_constraint))
        /\ models' = models_after_select(models, content_length, user_tier, operation,
                                         budget_constraint)
        /\ pc' = "returned"
        /\ UNCHANGED <<cli, qm, posts, session, tasks, i, results, trace>>

\* await router.process_content(content, operation, user_tier, budget): the
\* part that runs before the coroutine suspends (or ends)
ProcessContentCall ==
    \E content \in Contents, operation \in AIOperation, user_tier \in UserTier,
       budget_constraint \in DispatchBudgets :
        LET task == first_step(session, models, content, operation, user_tier,
                               budget_constraint)
        IN  /\ pc = "idle"
            /\ call' = Call("process_content", <<content>>, content.len, operation,
                            user_tier, budget_constraint)
            /\ session' = session_after_check(session, content.fate)
            /\ models' = models_after_first_step(session, models, content, operation,
                                                 user_tier, budget_constraint)
            /\ tasks' = <<task>>
            /\ ret' = task.out
            /\ pc' = IF task.state = "done" THEN "returned" ELSE "awaiting"
            /\ posts' = posts_in_first_step(task)
            /\ UNCHANGED <<cli, qm, i, results, trace>>

\* the response of a single dispatch arrives
ProcessContentResume ==
    /\ pc = "awaiting"
    /\ answers(call.contents[1].fate)
    /\ LET out == second_step(tasks[1], call.contents[1], call.operation)
       IN  /\ tasks' = <<[tasks[1] EXCEPT !.state = "done", !.out = out,
                                         !.response = received(call.contents[1].fate)]>>
           /\ ret' = out
    /\ pc' = "returned"
    /\ posts' = posts + posts_in_second_step(ret')
    /\ UNCHANGED <<cli, qm, models, session, call, i, results, trace>>

\* await router.process_batch(contents, operation, user_tier, budget): lines 281-282
ProcessBatchCall ==
    \E n \in 0..MaxItems, p \in BatchPatterns, operation \in BatchOperations,
       user_tier \in BatchTiers :
        /\ pc = "idle"
        /\ call' = Call("process_batch", Pattern(n, p), 0, operation, user_tier, None)
        /\ tasks' = [k \in 1..n |-> AbsentTask]
        /\ results' = <<>>
        /\ i' = 0
        /\ trace' = <<>>
        /\ ret' = NoOutcome
        /\ pc' = "loop"
        /\ posts' = 0
        /\ UNCHANGED <<cli, qm, models, session>>

\* the items of the chunk that starts at offset i (contents[i:i + batch_size])
ChunkEnd == Min2(i + batch_size(call.user_tier), Len(call.contents))
Chunk == (i + 1)..ChunkEnd

\* the first count tasks in flight among the items from..to whose request
\* is answered
RECURSIVE FirstInflight(_, _, _)
FirstInflight(from, to, count) ==
    IF from > to \/ count = 0 THEN {}
    ELSE IF tasks[from].state = "inflight" /\ answers(call.contents[from].fate)
         THEN {from} \cup FirstInflight(from + 1, to, count - 1)
         ELSE FirstInflight(from + 1, to, count)

\* lines 284-293: the next chunk's coroutines are created and handed to gather
ChunkCreate ==
    /\ pc = "loop"
    /\ i < Len(call.contents)
    /\ tasks' = [k \in 1..Len(tasks) |-> IF k \in Chunk THEN CreatedTask ELSE tasks[k]]
    /\ trace' = Append(trace, [ev |-> "chunk", n |-> ChunkEnd - i])
    /\ pc' = "gather"
    /\ UNCHANGED <<cli, qm, posts, models, session, call, i, results, ret>>

\* the event loop runs the first step of the chunk's tasks in the order gather
\* scheduled them
TaskStart ==
    /\ pc = "gather"
    /\ \E k \in Chunk :
        /\ tasks[k].state = "created"
        /\ IF k = i + 1 THEN TRUE ELSE tasks[k - 1].state # "created"
        /\ tasks' = [tasks EXCEPT ![k] =
                        first_step(session, models, call.contents[k], call.operation,
                                   call.user_tier, call.budget_constraint)]
        /\ session' = session_after_check(session, call.contents[k].fate)
        /\ models' = models_after_first_step(session, models, call.contents[k],
                                             call.operation, call.user_tier,
                                             call.budget_constraint)
        /\ posts' = posts + posts_in_first_step(tasks'[k])
    /\ UNCHANGED <<cli, qm, pc, call, i, results, trace, ret>>

\* the response of one request in flight arrives and its task runs to its end
TaskResume ==
    /\ pc = "gather"
    /\ tasks[ChunkEnd].state # "created"
    /\ \E k \in FirstInflight(i + 1, ChunkEnd, MaxReorder) :
        /\ tasks' = [tasks EXCEPT ![k].state = "done",
                                  ![k].out = second_step(tasks[k], call.contents[k],
                                                         call.operation),
                                  ![k].response = received(call.contents[k].fate)]
        /\ posts' = posts + posts_in_second_step(tasks'[k].out)
    /\ UNCHANGED <<cli, qm, models, session, pc, call, i, results, trace, ret>>

\* the chunk's items in list order
RECURSIVE ChunkOuts(_, _)
ChunkOuts(from, to) ==
    IF from > to THEN <<>>
    ELSE <<gathered(tasks[from].out)>> \o ChunkOuts(from + 1, to)

\* lines 293-305: gather returns once every task of the chunk is done, the
\* outcomes are appended to results, and the loop sleeps or goes on
GatherDone ==
    /\ pc = "gather"
    /\ \A k \in Chunk : tasks[k].state = "done"
    /\ LET size == batch_size(call.user_tier)
       IN  /\ results' = results \o collect(ChunkOuts(i + 1, ChunkEnd))
           /\ IF should_sleep(i, size, Len(call.contents))
              THEN pc' = "sleep" /\ i' = i
              ELSE pc' = "loop" /\ i' = i + size
    /\ UNCHANGED <<cli, qm, posts, models, session, call, tasks, trace, ret>>

\* line 306: await asyncio.sleep(2), then the next round of the loop
Sleep ==
    /\ pc = "sleep"
    /\ trace' = Append(trace, [ev |-> "sleep", n |-> 2])
    /\ i' = i + batch_size(call.user_tier)
    /\ pc' = "loop"
    /\ UNCHANGED <<cli, qm, posts, models, session, call, tasks, results, ret>>

\* line 308: the range is exhausted, return results
BatchReturn ==
    /\ pc = "loop"
    /\ i >= Len(call.contents)
    /\ ret' = Return(results)
    /\ pc' = "returned"
    /\ UNCHANGED <<cli, qm, posts, models, session, call, tasks, i, results, trace>>

\* await router.close(), lines 310-313: the session is closed and stays in
\* self.session
Close ==
    /\ pc = "idle"
    /\ session = "open"
    /\ session' = "closed"
    /\ UNCHANGED <<cli, qm, posts, models, pc, call, tasks, i, results, trace, ret>>

\* the caller takes what the call gave back; the call's frame is gone
CallerResumes ==
    /\ pc = "returned"
    /\ pc' = "idle"
    /\ call' = NoCall
    /\ tasks' = <<>>
    /\ i' = 0
    /\ results' = <<>>
    /\ trace' = <<>>
    /\ ret' = NoOutcome
    /\ posts' = 0
    /\ UNCHANGED <<cli, qm, models, session>>

Next ==
    \/ Select
    \/ ProcessContentCall
    \/ ProcessContentResume
    \/ ProcessBatchCall
    \/ ChunkCreate
    \/ TaskStart
    \/ TaskResume
    \/ GatherDone
    \/ Sleep
    \/ BatchReturn
    \/ Close
    \/ CallerResumes

Spec == Init /\ [][Next]_vars

(***************************************************************************)
(* The command-line scripts: main of llm_switcher.py, which drives one     *)
(* router through one process_content call, and main of run_model.py.      *)
(* An environment variable is "unset", "empty" or "set"; the environment   *)
(* is the one the script's main sees (run_model.py has loaded .env and     *)
(* .env.backup into it at import).                                         *)
(***************************************************************************)
EnvValues == {"unset", "empty", "set"}

\* a check that only looks for a variable that is not there (api_key is None)
key_missing_unset_only(api_key) == api_key = "unset"

\* not api_key: os.getenv gave None or the empty string
key_missing(api_key) == api_key \in {"unset", "empty"}

\* llm_switcher.py line 329: os.getenv('OPENROUTER_API_KEY')
router_api_key(env) == env.OPENROUTER_API_KEY

\* run_model.py line 26: os.getenv("OPENROUTER_API_KEY") or os.getenv("OPENAI_API_KEY")
prompt_api_key(env) ==
    IF key_missing(env.OPENROUTER_API_KEY) THEN env.OPENAI_API_KEY
    ELSE env.OPENROUTER_API_KEY

\* the process of script, started in environment env
Cli(script, env) ==
    [script |-> script, stage |-> "start", env |-> env, router |-> FALSE,
     requests |-> 0, stdout |-> <<>>, stderr |-> <<>>, exit_status |-> None]

\* sys.exit(status), or the end of the script
exited(c, status) == [c EXCEPT !.stage = "exited", !.exit_status = Some(status)]

MainInit ==
    /\ posts = 0
    /\ qm = NoQuotaManager
    /\ models = initialize_models
    /\ session = "none"
    /\ pc = "idle"
    /\ call = NoCall
    /\ tasks = <<>>
    /\ i = 0
    /\ results = <<>>
    /\ trace = <<>>
    /\ ret = NoOutcome
    /\ \E script \in {"llm_switcher", "run_model"},
          env \in [OPENROUTER_API_KEY : EnvValues, OPENAI_API_KEY : EnvValues] :
            cli = Cli(script, env)

RouterUnchanged ==
    UNCHANGED <<models, session, pc, call, tasks, i, results, trace, ret, posts, qm>>

\* llm_switcher.py lines 316-326: argparse leaves with status 2 on a command
\* line it rejects (no --content, an operation or tier outside the choices)
MainParseArgs ==
    /\ cli.script = "llm_switcher"
    /\ cli.stage = "start"
    /\ \E accepted \in BOOLEAN :
        cli' = IF accepted THEN [cli EXCEPT !.stage = "parsed"]
               ELSE exited([cli EXCEPT !.stderr = <<"usage">>], 2)
    /\ RouterUnchanged

\* llm_switcher.py lines 328-338: the key check, then LLMRouter(api_key)
MainCheckKey ==
    /\ cli.script = "llm_switcher"
    /\ cli.stage = "parsed"
    /\ cli' = IF key_missing(router_api_key(cli.env))
              THEN exited([cli EXCEPT !.stdout =
                              <<[success |-> FALSE,
                                 error |-> <<"OPENROUTER_API_KEY environment variable not set">>]>>],
                          1)
              ELSE [cli EXCEPT !.stage = "ready", !.router = TRUE]
    /\ RouterUnchanged

\* llm_switcher.py lines 342-347: result = await router.process_content(...);
\* the content argparse hands over is a string
MainProcess ==
    /\ cli.script = "llm_switcher"
    /\ cli.stage = "ready"
    /\ ProcessContentCall
    /\ call'.contents[1].fate # "select_fault"

\* the response of main's dispatch arrives
MainResume ==
    /\ cli.script = "llm_switcher"
    /\ cli.stage = "ready"
    /\ ProcessContentResume

\* what main prints for the ProcessingResult it got, lines 350-359
output(result) ==
    [success |-> result.success, result |-> result.result, error |-> result.error,
     model_used |-> result.model_used, tokens_used |-> result.tokens_used,
     cost |-> result.cost]

\* llm_switcher.py lines 349-369: the result is printed, or the exception is
\* reported and the exit status set to 1, or an exception that is no Exception
\* leaves main; the finally clause closes the router's session
MainFinish ==
    /\ cli.script = "llm_switcher"
    /\ cli.stage = "ready"
    /\ pc = "returned"
    /\ cli' = IF ret.kind = "return"
              THEN exited([cli EXCEPT !.stdout = <<output(ret.value)>>], 0)
              ELSE IF IsException(ret.value)
              THEN exited([cli EXCEPT !.stdout =
                              <<[success |-> FALSE, error |-> ret.value.message]>>], 1)
              ELSE exited([cli EXCEPT !.stderr = <<"Traceback">>], 1)
    /\ session' = IF session = "open" THEN "closed" ELSE session
    /\ UNCHANGED <<models, pc, call, tasks, i, results, trace, ret, posts, qm>>

\* run_model.py lines 21-24: no prompt on the command line
PromptCheckArgs ==
    /\ cli.script = "run_model"
    /\ cli.stage = "start"
    /\ \E given \in BOOLEAN :
        cli' = IF given THEN [cli EXCEPT !.stage = "parsed"]
               ELSE exited([cli EXCEPT !.stderr = <<"Usage">>], 1)
    /\ RouterUnchanged

\* run_model.py lines 26-34: the key check, then the client is built
PromptCheckKey ==
    /\ cli.script = "run_model"
    /\ cli.stage = "parsed"
    /\ cli' = IF key_missing(prompt_api_key(cli.env))
              THEN exited([cli EXCEPT !.stderr =
                              <<"Error: No API key found in OPENROUTER_API_KEY or OPENAI_API_KEY">>],
                          1)
              ELSE [cli EXCEPT !.stage = "ready", !.router = TRUE]
    /\ RouterUnchanged

\* run_model.py lines 36-46: the one request; its text is printed, or the
\* exception is and the exit status is 1
PromptRequest ==
    /\ cli.script = "run_model"
    /\ cli.stage = "ready"
    /\ \E answered \in BOOLEAN :
        cli' = IF answered
               THEN exited([cli EXCEPT !.requests = 1, !.stdout = <<"completion">>], 0)
               ELSE exited([cli EXCEPT !.requests = 1,
                                       !.stdout = <<"Error during API call">>], 1)
    /\ RouterUnchanged

MainNext ==
    \/ MainParseArgs
    \/ MainCheckKey
    \/ MainProcess
    \/ MainResume
    \/ MainFinish
    \/ PromptCheckArgs
    \/ PromptCheckKey
    \/ PromptRequest

SpecMain == MainInit /\ [][MainNext]_vars

(***************************************************************************)
(* select_optimal_model on catalogs with equal costs.  The catalog that    *)
(* _initialize_models builds has no two descriptors of equal cost in a     *)
(* tier, so the tie-breaking of sorted() and min() is exercised on         *)
(* catalogs of three descriptors m1, m2, m3 (in this order) whose costs    *)
(* and sizes are drawn from two values each.                               *)
(***************************************************************************)
TieCosts == {100, 200}
TieSizes == {4000, 8000}
TieCatalogs ==
    { [t \in UserTier |-> <<ModelConfig("m1", c[1], z[1]), ModelConfig("m2", c[2], z[2]),
                            ModelConfig("m3", c[3], z[3])>>] :
        c \in [1..3 -> TieCosts], z \in [1..3 -> TieSizes] }

TiesInit ==
    /\ models \in TieCatalogs
    /\ session = "none"
    /\ pc = "idle"
    /\ call = NoCall
    /\ tasks = <<>>
    /\ i = 0
    /\ results = <<>>
    /\ trace = <<>>
    /\ ret = NoOutcome
    /\ cli = NoCli
    /\ posts = 0
    /\ qm = NoQuotaManager

TiesNext ==
    \/ Select
    \/ CallerResumes

SpecTies == TiesInit /\ [][TiesNext]_vars

(***************************************************************************)
(* The quota tracker of backup/deprecated-files/python/                    *)
(* check_openai_quota.py (class QuotaManager) on its SQLite database.      *)
(* Tokens are integers; costs and cost limits are counted in units of      *)
(* 1e-2 USD (cost_limit 0.20 is 20); the clock counts days.  Every method  *)
(* opens its own connection and commits at most once, so a method is one   *)
(* step, except that two clients' calls interleave.                        *)
(***************************************************************************)
\* timedelta(days=30)
Period == 30
\* the clock runs from day 0 to day MaxNow
MaxNow == 31
\* at most MaxHistory rows are inserted into usage_history
MaxHistory == 2
\* the interpreter's recursion limit, counted in nested get_user_quota calls
RecursionLimit == 2

QuotaUsers == {"alice", "ghost"}
QuotaTiers == {"free", "pro", "premium", "gold"}

\* QuotaManager.get_tier_limits: an unknown tier gets the limits of 'free'
get_tier_limits(tier) ==
    CASE tier = "pro" -> [token_limit |-> 500000, cost_limit |-> 5000]
      [] tier = "premium" -> [token_limit |-> -1, cost_limit |-> 20000]
      [] OTHER -> [token_limit |-> 10000, cost_limit |-> 20]

\* a row of user_quotas (without the two timestamps nothing reads)
QuotaRow(tier, used_tokens, token_limit, used_cost, cost_limit, reset_date) ==
    [tier |-> tier, used_tokens |-> used_tokens, token_limit |-> token_limit,
     used_cost |-> used_cost, cost_limit |-> cost_limit, reset_date |-> reset_date]

\* a row of usage_history
HistoryRow(user_id, operation, model_used, tokens_used, cost) ==
    [user_id |-> user_id, operation |-> operation, model_used |-> model_used,
     tokens_used |-> tokens_used, cost |-> cost]

\* the database after init_database: both tables empty.  SQLite does not
\* enforce the FOREIGN KEY clause of usage_history unless a connection turns
\* foreign_keys on, which no connection of the class does.
EmptyDb == [user_quotas |-> [u \in QuotaUsers |-> None], usage_history |-> <<>>]

\* dataclass QuotaInfo as get_user_quota fills it, lines 139-155
\* (percentage_used is left to its integer part)
QuotaInfo(user_id, row) ==
    [user_id |-> user_id, tier |-> row.tier, used_tokens |-> row.used_tokens,
     token_limit |-> row.token_limit, used_cost |-> row.used_cost,
     cost_limit |-> row.cost_limit, reset_date |-> row.reset_date,
     remaining_tokens |-> IF row.token_limit > 0
                          THEN row.token_limit - row.used_tokens ELSE -1,
     remaining_cost |-> IF row.cost_limit > 0
                        THEN row.cost_limit - row.used_cost ELSE -1,
     percentage_used |-> IF row.token_limit > 0
                         THEN (row.used_tokens * 100) \div row.token_limit ELSE 0]

\* QuotaManager.reset_user_quota: [db, ret]; fails says that the UPDATE raises
reset_user_quota(db, user_id, now, fails) ==
    IF fails THEN [db |-> db, ret |-> FALSE]
    ELSE [db |-> IF db.user_quotas[user_id] = None THEN db
                 ELSE [db EXCEPT !.user_quotas[user_id] =
                          Some([@[1] EXCEPT !.used_tokens = 0, !.used_cost = 0,
                                            !.reset_date = now + Period])],
          ret |-> TRUE]

\* QuotaManager.get_user_quota: [db, out, attempts]; failures is the number of
\* reset_user_quota calls that fail before one succeeds, depth the number of
\* frames of get_user_quota below this one, attempts the number of resets tried
RECURSIVE get_user_quota(_, _, _, _, _)
get_user_quota(db, user_id, now, failures, depth) ==
    LET row == db.user_quotas[user_id]
    IN  IF row = None
        THEN [db |-> db, out |-> Return(None), attempts |-> 0]
        ELSE IF now > row[1].reset_date
        THEN IF depth >= RecursionLimit
             THEN [db |-> db,
                   out |-> Raise(Exc("RecursionError",
                                     <<"maximum recursion depth exceeded">>)),
                   attempts |-> 0]
             ELSE LET reset == reset_user_quota(db, user_id, now, failures > 0)
                      again == get_user_quota(reset.db, user_id, now,
                                              IF failures > 0 THEN failures - 1 ELSE 0,
                                              depth + 1)
                  IN  [db |-> again.db, out |-> again.out,
                       attempts |-> again.attempts + 1]
        ELSE [db |-> db, out |-> Return(Some(QuotaInfo(user_id, row[1]))),
              attempts |-> 0]

\* QuotaManager.create_user_quota: INSERT OR REPLACE, then get_user_quota
create_user_quota(db, user_id, tier, now) ==
    LET limits == get_tier_limits(tier)
        row == QuotaRow(tier, 0, limits.token_limit, 0, limits.cost_limit, now + Period)
    IN  get_user_quota([db EXCEPT !.user_quotas[user_id] = Some(row)], user_id, now, 0, 0)

\* the UPDATE of lines 165-171: no row of the user, no change
usage_added(db, user_id, tokens_used, cost) ==
    IF db.user_quotas[user_id] = None THEN db
    ELSE [db EXCEPT !.user_quotas[user_id] =
             Some([@[1] EXCEPT !.used_tokens = @ + tokens_used, !.used_cost = @ + cost])]

\* an update_usage whose connection commits every statement: a failure of
\* the INSERT or of the commit leaves the counters updated
update_usage_autocommit(db, user_id, operation, model_used, tokens_used, cost, fault) ==
    IF fault = "none"
    THEN [db |-> [usage_added(db, user_id, tokens_used, cost) EXCEPT
                     !.usage_history = Append(@, HistoryRow(user_id, operation,
                                                  model_used, tokens_used, cost))],
          ret |-> TRUE]
    ELSE IF fault = "update" THEN [db |-> db, ret |-> FALSE]
    ELSE [db |-> usage_added(db, user_id, tokens_used, cost), ret |-> FALSE]

\* QuotaManager.update_usage: [db, ret]; fault is the statement that raises
\* ("update", "insert", "commit") or "none"
update_usage(db, user_id, operation, model_used, tokens_used, cost, fault) ==
    IF fault = "none"
    THEN [db |-> [usage_added(db, user_id, tokens_used, cost) EXCEPT
                     !.usage_history = Append(@, HistoryRow(user_id, operation,
                                                  model_used, tokens_used, cost))],
          ret |-> TRUE]
    ELSE \* conn.rollback()
         [db |-> db, ret |-> FALSE]

\* the dict check_quota_limits returns
Verdict(can_proceed, reason) == [can_proceed |-> can_proceed, reason |-> reason]

\* a token check that also refuses the unlimited tier (limit -1)
tokens_exceeded_unlimited_refused(quota, tokens_needed) ==
    quota.used_tokens + tokens_needed > quota.token_limit

\* line 228
tokens_exceeded(quota, tokens_needed) ==
    quota.token_limit > 0 /\ quota.used_tokens + tokens_needed > quota.token_limit

\* line 237
cost_exceeded(quota, estimated_cost) ==
    quota.cost_limit > 0 /\ quota.used_cost + estimated_cost > quota.cost_limit

\* QuotaManager.check_quota_limits: [db, out]
check_quota_limits(db, user_id, tokens_needed, estimated_cost, now, failures) ==
    LET got == get_user_quota(db, user_id, now, failures, 0)
    IN  [db |-> got.db,
         out |-> IF got.out.kind = "raise" THEN got.out
                 ELSE IF got.out.value = None
                 THEN Return(Verdict(FALSE, Some("User quota not found")))
                 ELSE IF tokens_exceeded(got.out.value[1], tokens_needed)
                 THEN Return(Verdict(FALSE, Some("Token limit exceeded")))
                 ELSE IF cost_exceeded(got.out.value[1], estimated_cost)
                 THEN Return(Verdict(FALSE, Some("Cost limit exceeded")))
                 ELSE Return(Verdict(TRUE, None))]

(***************************************************************************)
(* Calls of the quota tracker.  qm.last keeps the last call: its           *)
(* arguments, the database and the clock it found, and what it gave back.  *)
(***************************************************************************)
\* (tokens, cost) of the usages recorded and of the requests checked
UsageInputs == {[tokens |-> 6000, cost |-> 12], [tokens |-> 300000, cost |-> 3000]}
QuotaRequests == {[tokens |-> 0, cost |-> 0], [tokens |-> 4000, cost |-> 8],
                  [tokens |-> 4001, cost |-> 0], [tokens |-> 0, cost |-> 9],
                  [tokens |-> 600000, cost |-> 0]}
UpdateFaults == {"none", "update", "insert", "commit"}

NoLast == [op |-> "none"]

LastCall(op, user_id, tokens, cost, before, now, out, attempts) ==
    [op |-> op, user_id |-> user_id, tokens |-> tokens, cost |-> cost,
     before |-> before, now |-> now, out |-> out, attempts |-> attempts]

\* the state after QuotaManager.__init__ on a new database file
QuotaInit ==
    /\ models = initialize_models
    /\ session = "none"
    /\ pc = "idle"
    /\ call = NoCall
    /\ tasks = <<>>
    /\ i = 0
    /\ results = <<>>
    /\ trace = <<>>
    /\ ret = NoOutcome
    /\ cli = NoCli
    /\ posts = 0
    /\ qm = [db |-> EmptyDb, now |-> 0, last |-> NoLast, clients |-> <<>>]

OnlyQuotaChanges ==
    UNCHANGED <<models, session, pc, call, tasks, i, results, trace, ret, cli, posts>>

\* quota_manager.create_user_quota("alice", tier)
CreateUserQuota ==
    \E tier \in QuotaTiers :
        LET done == create_user_quota(qm.db, "alice", tier, qm.now)
        IN  /\ qm' = [qm EXCEPT !.db = done.db,
                                !.last = LastCall("create_user_quota", "alice", 0, 0,
                                                  qm.db, qm.now, done.out, done.attempts)]
            /\ OnlyQuotaChanges

\* quota_manager.get_user_quota(user_id)
GetUserQuota ==
    \E user_id \in QuotaUsers, failures \in 0..RecursionLimit :
        LET done == get_user_quota(qm.db, user_id, qm.now, failures, 0)
        IN  /\ qm' = [qm EXCEPT !.db = done.db,
                                !.last = LastCall("get_user_quota", user_id, 0, 0,
                                                  qm.db, qm.now, done.out, done.attempts)]
            /\ OnlyQuotaChanges

\* quota_manager.update_usage(user_id, "categorize", "m", tokens, cost)
UpdateUsage ==
    \E user_id \in QuotaUsers, usage \in UsageInputs, fault \in UpdateFaults :
        LET done == update_usage(qm.db, user_id, "categorize", "m", usage.tokens,
                                 usage.cost, fault)
        IN  /\ Len(qm.db.usage_history) < MaxHistory
            /\ qm' = [qm EXCEPT !.db = done.db,
                                !.last = LastCall("update_usage", user_id, usage.tokens,
                                                  usage.cost, qm.db, qm.now,
                                                  Return(done.ret), 0)]
            /\ OnlyQuotaChanges

\* quota_manager.reset_user_quota(user_id)
ResetUserQuota ==
    \E user_id \in QuotaUsers, fails \in BOOLEAN :
        LET done == reset_user_quota(qm.db, user_id, qm.now, fails)
        IN  /\ qm' = [qm EXCEPT !.db = done.db,
                                !.last = LastCall("reset_user_quota", user_id, 0, 0,
                                                  qm.db, qm.now, Return(done.ret), 1)]
            /\ OnlyQuotaChanges

\* quota_manager.check_quota_limits(user_id, tokens_needed, estimated_cost),
\* with a reset that works or one that keeps failing
CheckQuotaLimits ==
    \E user_id \in QuotaUsers, request \in QuotaRequests, failures \in {0, RecursionLimit} :
        LET done == check_quota_limits(qm.db, user_id, request.tokens, request.cost,
                                       qm.now, failures)
        IN  /\ qm' = [qm EXCEPT !.db = done.db,
                                !.last = LastCall("check_quota_limits", user_id,
                                                  request.tokens, request.cost, qm.db,
                                                  qm.now, done.out, 0)]
            /\ OnlyQuotaChanges

\* a billing period and a day pass
Tick ==
    /\ qm.now + Period + 1 <= MaxNow
    /\ qm' = [qm EXCEPT !.now = @ + Period + 1, !.last = NoLast]
    /\ OnlyQuotaChanges

QuotaNext ==
    \/ CreateUserQuota
    \/ GetUserQuota
    \/ UpdateUsage
    \/ ResetUserQuota
    \/ CheckQuotaLimits
    \/ Tick

SpecQuota == QuotaInit /\ [][QuotaNext]_vars

(***************************************************************************)
(* Two clients that record a usage only after check_quota_limits let it    *)
(* pass, within one billing period.                                        *)
(***************************************************************************)
Clients == {"c1", "c2"}
IdleClient == [stage |-> "idle", tokens |-> 0, cost |-> 0]

\* user alice exists with a tier; both clients are about to check
ClientsInit ==
    /\ models = initialize_models
    /\ session = "none"
    /\ pc = "idle"
    /\ call = NoCall
    /\ tasks = <<>>
    /\ i = 0
    /\ results = <<>>
    /\ trace = <<>>
    /\ ret = NoOutcome
    /\ cli = NoCli
    /\ posts = 0
    /\ \E tier \in QuotaTiers :
        qm = [db |-> create_user_quota(EmptyDb, "alice", tier, 0).db, now |-> 0,
              last |-> NoLast, clients |-> [c \in Clients |-> IdleClient]]

\* client c asks check_quota_limits("alice", tokens, cost) and keeps the
\* request when it may proceed
ClientCheck(c) ==
    \E request \in UsageInputs \cup QuotaRequests :
        LET done == check_quota_limits(qm.db, "alice", request.tokens, request.cost,
                                       qm.now, 0)
        IN  /\ qm.clients[c].stage = "idle"
            /\ done.out.kind = "return"
            /\ done.out.value.can_proceed
            /\ qm' = [qm EXCEPT !.db = done.db,
                                !.clients[c] = [stage |-> "checked",
                                                tokens |-> request.tokens,
                                                cost |-> request.cost]]
            /\ OnlyQuotaChanges

\* client c records the usage it checked
ClientUpdate(c) ==
    /\ qm.clients[c].stage = "checked"
    /\ Len(qm.db.usage_history) < MaxHistory
    /\ qm' = [qm EXCEPT !.db = update_usage(qm.db, "alice", "categorize", "m",
                                            qm.clients[c].tokens, qm.clients[c].cost,
                                            "none").db,
                        !.clients[c] = IdleClient]
    /\ OnlyQuotaChanges

ClientsNext ==
    \E c \in Clients :
        \/ ClientCheck(c)
        \/ ClientUpdate(c)

SpecClients == ClientsInit /\ [][ClientsNext]_vars

(***************************************************************************)
(* Properties.                                                             *)
(***************************************************************************)
\* C1: when process_batch returns, it returns a list with one entry per input
\* item, and the entry at position k is the outcome of the dispatch of item k:
\* the value that dispatch returned, or the fault it raised (as the exception
\* object or as the failed result built from its message); an item whose
\* provider answered 429 holds a failed result, an item whose provider answered
\* well holds a success unless the session was closed.
BatchReturnsOnePerItem ==
    (pc = "returned" /\ call.op = "process_batch") =>
        /\ ret.kind = "return"
        /\ Len(ret.value) = Len(call.contents)
        /\ \A k \in 1..Len(call.contents) :
            LET out == tasks[k].out
                r == ret.value[k]
            IN  /\ tasks[k].state = "done"
                /\ out.kind = "return" => r = out.value
                /\ out.kind = "raise" =>
                       \/ r = out.value
                       \/ r = ProcessingResult(FALSE, None, Some(out.value.message),
                                               None, None, None)
                /\ call.contents[k].fate = "http_error" =>
                       r.class = "ProcessingResult" /\ ~r.success
                /\ call.contents[k].fate = "ok" =>
                       r.class = "ProcessingResult" /\ (r.success <=> session # "closed")

\* C1 witness: a batch of more than one chunk has returned with a success, a
\* returned failure and a converted fault among its results
BatchReturnedMixedOutcomes ==
    /\ pc = "returned"
    /\ call.op = "process_batch"
    /\ Len(call.contents) > batch_size(call.user_tier)
    /\ \E a, b, c \in 1..Len(call.contents) :
        /\ tasks[a].out.kind = "return" /\ tasks[a].out.value.success
        /\ tasks[b].out.kind = "return" /\ ~tasks[b].out.value.success
        /\ tasks[c].out.kind = "raise" /\ IsException(tasks[c].out.value)

\* C2: when process_batch returns, every element of the returned list is a
\* ProcessingResult; the position of an item whose dispatch raised holds a
\* failed result with the fault's message, every other position holds the
\* item's own result, and no item is missing.
BatchFaultsBecomeFailedResults ==
    (pc = "returned" /\ call.op = "process_batch") =>
        /\ ret.kind = "return"
        /\ Len(ret.value) = Len(call.contents)
        /\ \A k \in 1..Len(call.contents) :
            /\ ret.value[k].class = "ProcessingResult"
            /\ tasks[k].out.kind = "return" => ret.value[k] = tasks[k].out.value
            /\ tasks[k].out.kind = "raise" =>
                   /\ ~ret.value[k].success
                   /\ ret.value[k].error = Some(tasks[k].out.value.message)

\* C3: when process_batch returns for n items with chunk size s (5 for the
\* Free tier, 20 otherwise), it has scheduled ceil(n/s) chunks, all of size s
\* except possibly the last, and has slept 2 time units exactly between
\* consecutive chunks: the trace alternates chunk, sleep, ..., chunk.
BatchChunksAndPauses ==
    (pc = "returned" /\ call.op = "process_batch") =>
        LET n == Len(call.contents)
            s == IF call.user_tier = FREE THEN 5 ELSE 20
            chunks == (n + s - 1) \div s
        IN  /\ Len(trace) = IF chunks = 0 THEN 0 ELSE 2 * chunks - 1
            /\ \A j \in 1..Len(trace) :
                IF j % 2 = 1
                THEN trace[j] = [ev |-> "chunk",
                                 n |-> IF (j + 1) \div 2 < chunks
                                       THEN s ELSE n - (chunks - 1) * s]
                ELSE trace[j] = [ev |-> "sleep", n |-> 2]

\* C3 witness: the Free tier with 12 items has run chunks of 5, 5 and 2 with
\* two pauses between them
BatchFreeTwelveItems ==
    /\ pc = "returned"
    /\ call.op = "process_batch"
    /\ call.user_tier = FREE
    /\ Len(call.contents) = 12
    /\ trace = <<[ev |-> "chunk", n |-> 5], [ev |-> "sleep", n |-> 2],
                 [ev |-> "chunk", n |-> 5], [ev |-> "sleep", n |-> 2],
                 [ev |-> "chunk", n |-> 2]>>

\* C4: when select_optimal_model returns and the set of the tier's descriptors
\* that pass the budget filter (if a ceiling is given) and the length filter is
\* not empty, the returned descriptor is in that set and is a cheapest member
\* for Categorize and GenerateTags, a most expensive one for ExtractInsights
\* and Summarize.
SelectPrefersByOperation ==
    (pc = "returned" /\ call.op = "select_optimal_model") =>
        LET lst == models[call.user_tier]
            b == call.budget_constraint
            eligible ==
                { m \in {lst[k] : k \in 1..Len(lst)} :
                    /\ m.max_tokens >= call.content_length
                    /\ b # None =>
                         m.cost_per_token * Min2(2 * call.content_length, 500) <= b[1] }
        IN  eligible # {} =>
                /\ ret.value \in eligible
                /\ call.operation \in {CATEGORIZE, GENERATE_TAGS} =>
                       \A m \in eligible : ret.value.cost_per_token <= m.cost_per_token
                /\ call.operation \in {EXTRACT_INSIGHTS, SUMMARIZE} =>
                       \A m \in eligible : ret.value.cost_per_token >= m.cost_per_token

\* C4 witness: a Summarize selection under a budget that leaves two of the Pro
\* tier's three descriptors returned the dearer of the two
SelectedDearestEligible ==
    /\ pc = "returned"
    /\ call.op = "select_optimal_model"
    /\ call.operation = SUMMARIZE
    /\ call.user_tier = PRO
    /\ call.content_length = 1
    /\ call.budget_constraint = Some(3000)
    /\ ret.value.name = "anthropic/claude-3-sonnet"

\* C5: when select_optimal_model returns for a supplied budget ceiling (zero
\* and negative ceilings included) that no descriptor of the tier meets,
\* it returns the cheapest descriptor of the tier's full list.
BudgetFallbackIsCheapest ==
    (pc = "returned" /\ call.op = "select_optimal_model") =>
        LET lst == models[call.user_tier]
            b == call.budget_constraint
        IN  (/\ b # None
             /\ \A k \in 1..Len(lst) :
                    lst[k].cost_per_token * Min2(2 * call.content_length, 500) > b[1])
            => /\ ret.kind = "return"
               /\ \A k \in 1..Len(lst) : ret.value.cost_per_token <= lst[k].cost_per_token

\* C6: when select_optimal_model returns and some descriptor of the tier is
\* large enough for the content and, if a ceiling is given, within the budget,
\* the returned descriptor is large enough and within the budget.
SelectedConformsWhenPossible ==
    (pc = "returned" /\ call.op = "select_optimal_model") =>
        LET lst == models[call.user_tier]
            b == call.budget_constraint
            Conforms(m) ==
                /\ m.max_tokens >= call.content_length
                /\ b # None =>
                     m.cost_per_token * Min2(2 * call.content_length, 500) <= b[1]
        IN  (\E k \in 1..Len(lst) : Conforms(lst[k])) => Conforms(ret.value)

\* C6 witness: a quality-first selection whose dearest descriptor is over the
\* budget returned a descriptor within it
SelectedWithinBudgetNotDearest ==
    /\ pc = "returned"
    /\ call.op = "select_optimal_model"
    /\ call.operation = EXTRACT_INSIGHTS
    /\ call.budget_constraint # None
    /\ call.budget_constraint[1] > 0
    /\ \E k \in 1..Len(models[call.user_tier]) :
        /\ models[call.user_tier][k].cost_per_token > ret.value.cost_per_token
        /\ models[call.user_tier][k].max_tokens >= call.content_length
    /\ ret.value.cost_per_token * Min2(2 * call.content_length, 500)
           <= call.budget_constraint[1]

\* C7: select_optimal_model always returns one descriptor of the requested
\* tier's list, and when no descriptor passes the budget filter (if a ceiling
\* is given) and the length filter, the returned descriptor is the cheapest of
\* the tier's list, for every operation.
SelectTotalCheapestFallback ==
    (pc = "returned" /\ call.op = "select_optimal_model") =>
        LET lst == models[call.user_tier]
            b == call.budget_constraint
            Passes(m) ==
                /\ m.max_tokens >= call.content_length
                /\ b # None =>
                     m.cost_per_token * Min2(2 * call.content_length, 500) <= b[1]
        IN  /\ ret.kind = "return"
            /\ \E k \in 1..Len(lst) : ret.value = lst[k]
            /\ (\A k \in 1..Len(lst) : ~Passes(lst[k])) =>
                   \A k \in 1..Len(lst) : ret.value.cost_per_token <= lst[k].cost_per_token

\* C8: whatever calls the router has served, a selection returns what the same
\* selection returns on a freshly constructed router: in every state in which a
\* call can be made, every argument tuple selects the same descriptor as at
\* construction, and a selection that has returned has returned that one.
SelectionIsDeterministic ==
    /\ pc = "idle" =>
        \A content_length \in Lengths, user_tier \in UserTier,
           operation \in AIOperation, budget_constraint \in Budgets :
            select_optimal_model(models, content_length, user_tier, operation,
                                 budget_constraint)
            = select_optimal_model(initialize_models, content_length, user_tier,
                                   operation, budget_constraint)
    /\ (pc = "returned" /\ call.op = "select_optimal_model") =>
        ret.value = select_optimal_model(initialize_models, call.content_length,
                                         call.user_tier, call.operation,
                                         call.budget_constraint)

\* C8 witness: a selection has returned on a router that has dispatched
\* requests and closed its session before
SelectedAfterDispatches ==
    /\ pc = "returned"
    /\ call.op = "select_optimal_model"
    /\ session = "closed"

\* C9: in every reachable state the catalog of every tier is non-empty, every
\* descriptor has a positive cost_per_token and a positive max_tokens, and the
\* catalog equals the catalog built at construction, order included.
CatalogIsFixed ==
    /\ models = initialize_models
    /\ \A t \in UserTier :
        /\ Len(models[t]) > 0
        /\ \A k \in 1..Len(models[t]) :
            models[t][k].cost_per_token > 0 /\ models[t][k].max_tokens > 0

\* C9 witness: a batch that selected a model for every item has returned
BatchReturnedAfterSelections ==
    /\ pc = "returned"
    /\ call.op = "process_batch"
    /\ Len(call.contents) > 0
    /\ \A k \in 1..Len(tasks) : tasks[k].model # None

\* C10: when process_content ends, its caller holds a ProcessingResult, never
\* a raised fault; a dispatch whose step failed holds one with success = false.
DispatchNeverRaises ==
    (pc = "returned" /\ call.op = "process_content") =>
        /\ ret.kind = "return"
        /\ ret.value.class = "ProcessingResult"
        /\ call.contents[1].fate \notin {"ok", "ok_text", "ok_nonconforming",
                                          "session_fault"} =>
               ~ret.value.success

FailuresCarryMessageAndModel ==
    \A k \in 1..Len(tasks) :
        (/\ tasks[k].state = "done"
         /\ call.contents[k].fate \in {"no_choices", "send_fault", "timeout",
                                       "body_fault", "error_body_fault"}) =>
            LET selected == select_optimal_model(initialize_models,
                                call.contents[k].len, call.user_tier, call.operation,
                                call.budget_constraint)
                r == tasks[k].out.value
            IN  /\ tasks[k].out.kind = "return"
                /\ r.class = "ProcessingResult"
                /\ ~r.success
                /\ r.error # None
                /\ r.error[1] # <<>>
                /\ r.model_used = Some(selected.name)

\* C13: every dispatch that received a 200 response with a choice carrying a
\* text returns success = true with model_used equal to the selected model's
\* name, tokens_used equal to the reported usage.total_tokens (0 when the
\* response reports no usage) and cost equal to tokens_used times the
\* cost_per_token of the selected model, for every tier, operation and budget.
SuccessReportsUsageAndCost ==
    \A k \in 1..Len(tasks) :
        (/\ tasks[k].response # None
         /\ tasks[k].response[1].status = "200"
         /\ tasks[k].response[1].decodes
         /\ tasks[k].response[1].choices = "present"
         /\ tasks[k].response[1].content # None) =>
            LET response == tasks[k].response[1]
                selected == select_optimal_model(initialize_models,
                                call.contents[k].len, call.user_tier, call.operation,
                                call.budget_constraint)
                r == tasks[k].out.value
            IN  /\ tasks[k].out.kind = "return"
                /\ r.class = "ProcessingResult"
                /\ r.success
                /\ r.error = None
                /\ r.result # None
                /\ r.model_used = Some(selected.name)
                /\ response.usage # None => r.tokens_used = response.usage
                /\ response.usage = None => r.tokens_used = Some(0)
                /\ r.cost = Some(r.tokens_used[1] * selected.cost_per_token)

\* C13 witness: a Pro ExtractInsights dispatch answered with 42 tokens has
\* returned a success with the cost of 42 tokens of openai/gpt-4
SuccessWithCostReturned ==
    /\ pc = "returned"
    /\ call.op = "process_content"
    /\ call.user_tier = PRO
    /\ call.operation = EXTRACT_INSIGHTS
    /\ ret.kind = "return"
    /\ ret.value.success
    /\ ret.value.model_used = Some("openai/gpt-4")
    /\ ret.value.tokens_used = Some(42)
    /\ ret.value.cost = Some(42 * 3000)

\* C14: for the structured operations (Categorize, ExtractInsights,
\* GenerateTags), every dispatch that received a 200 response with a choice
\* whose content is malformed or is not of the structured format returns
\* success = true with the payload {text: raw content}.
StructuredDegradesToText ==
    \A k \in 1..Len(tasks) :
        (/\ call.operation \in {CATEGORIZE, EXTRACT_INSIGHTS, GENERATE_TAGS}
         /\ tasks[k].response # None
         /\ tasks[k].response[1].status = "200"
         /\ tasks[k].response[1].decodes
         /\ tasks[k].response[1].choices = "present"
         /\ tasks[k].response[1].content # None
         /\ ~(tasks[k].response[1].content[1].json
              /\ tasks[k].response[1].content[1].conforms)) =>
            /\ tasks[k].out.kind = "return"
            /\ tasks[k].out.value.success
            /\ tasks[k].out.value.result
                 = Some([form |-> "text",
                         value |-> tasks[k].response[1].content[1].raw])

\* C15: every request a dispatch has issued goes to the endpoint of the
\* descriptor selected for the item, names that descriptor's model, carries
\* max_tokens = min(500, the descriptor's max_tokens) and carries temperature
\* 0.3 for Categorize and 0.7 for the other three operations.
RequestMatchesSelection ==
    \A k \in 1..Len(tasks) :
        tasks[k].request # None =>
            LET selected == select_optimal_model(initialize_models,
                                call.contents[k].len, call.user_tier, call.operation,
                                call.budget_constraint)
                request == tasks[k].request[1]
            IN  /\ tasks[k].model = Some(selected)
                /\ request.url = selected.api_endpoint
                /\ request.model = selected.name
                /\ request.max_tokens
                     = (IF selected.max_tokens < 500 THEN selected.max_tokens ELSE 500)
                /\ request.temperature
                     = (IF call.operation = CATEGORIZE THEN "0.3" ELSE "0.7")

\* C15 witness: a Summarize request for a long Pro item is on the wire, to
\* openai/gpt-4 with max_tokens 500 and temperature 0.7
SummarizeRequestInFlight ==
    /\ pc = "awaiting"
    /\ call.operation = SUMMARIZE
    /\ call.user_tier = PRO
    /\ call.content_length = 4001
    /\ tasks[1].request = Some([url |-> Endpoint, model |-> "openai/gpt-4",
                                max_tokens |-> 500, temperature |-> "0.7"])

\* C18: during process_batch the number of dispatches in flight never exceeds
\* the chunk size (5 for Free, 20 otherwise), no dispatch of a chunk exists
\* before every dispatch of the chunks before it has produced its outcome,
\* the outcomes of a chunk are appended only when the whole chunk is done, and
\* no awaited request of a chunk is resumed while a dispatch of the chunk has
\* not been started.
ChunkBoundsConcurrency ==
    /\ [](call.op = "process_batch" =>
            LET s == IF call.user_tier = FREE THEN 5 ELSE 20
                n == Len(tasks)
            IN  /\ Cardinality({k \in 1..n : tasks[k].state = "inflight"}) <= s
                /\ Cardinality({k \in 1..n : tasks[k].state \in {"created", "inflight"}})
                       <= s
                /\ \A k \in 1..n :
                       tasks[k].state # "absent" =>
                           \A j \in 1..n : (j - 1) \div s < (k - 1) \div s =>
                                               tasks[j].state = "done"
                /\ Len(results) % s # 0 => pc \in {"loop", "returned"}
                /\ \A k \in 1..Len(results) : tasks[k].state = "done")
    /\ [][(pc = "gather" /\ pc' = "gather") =>
            \A k \in 1..Len(tasks) :
                (tasks[k].state = "inflight" /\ tasks'[k].state = "done") =>
                    \A j \in 1..Len(tasks) : tasks[j].state # "created"]_vars

\* C18 witness: the second chunk of a Free batch of 12 items has its five
\* requests in flight, the first chunk is done, the third is not created
SecondChunkAllInFlight ==
    /\ pc = "gather"
    /\ call.user_tier = FREE
    /\ Len(tasks) = 12
    /\ \A k \in 1..5 : tasks[k].state = "done"
    /\ \A k \in 6..10 : tasks[k].state = "inflight"
    /\ \A k \in 11..12 : tasks[k].state = "absent"
    /\ Len(results) = 5

\* C19: while the items of a chunk are running, no field of the router is
\* assigned: neither self.session nor self.models changes.
NoRouterFieldAssignedInChunk ==
    [][pc = "gather" => (session' = session /\ models' = models)]_vars

\* C19, as the code has it: while the items of a chunk are running, the
\* catalog is never assigned, and the only assignment to a router field is the
\* lazy creation of the session, from None to an open session; apart from
\* that, a step of a dispatch changes only the task of its own item.
OnlyLazySessionAssignedInChunk ==
    [][pc = "gather" =>
        /\ models' = models
        /\ session' # session => (session = "none" /\ session' = "open")
        /\ pc' = "gather" =>
            \A j, k \in 1..Len(tasks) :
                (tasks'[j] # tasks[j] /\ tasks'[k] # tasks[k]) => j = k]_vars

\* C19 witness: in a running chunk the first dispatch found no session and
\* failed to create one, a later dispatch of the same chunk has created it
\* and has its request in flight
SessionCreatedInsideChunk ==
    /\ pc = "gather"
    /\ session = "open"
    /\ tasks[i + 1].out.kind = "raise"
    /\ tasks[i + 1].out.value.class = "ClientError"
    /\ \E k \in Chunk : tasks[k].state = "inflight"

CliExitStatusTellsFailure ==
    (cli.script = "llm_switcher" /\ cli.stage = "exited") =>
        LET succeeded == pc = "returned" /\ ret.kind = "return" /\ ret.value.success
        IN  /\ cli.exit_status = Some(0) <=> succeeded
            /\ pc = "returned" => Len(cli.stdout) = 1

\* C17: when the script finds no API key (OPENROUTER_API_KEY unset or empty
\* for llm_switcher.py; OPENROUTER_API_KEY and OPENAI_API_KEY both unset or
\* empty for run_model.py), no router or client is ever built, no session is
\* created and no request is issued; the process ends with a non-zero status,
\* and on a command line the script accepts it ends with status 1 after
\* reporting the missing key.
MissingKeyStopsBeforeRouter ==
    LET absent(v) == v \in {"unset", "empty"}
        no_key == IF cli.script = "llm_switcher"
                  THEN absent(cli.env.OPENROUTER_API_KEY)
                  ELSE absent(cli.env.OPENROUTER_API_KEY)
                       /\ absent(cli.env.OPENAI_API_KEY)
    IN  (cli.script \in {"llm_switcher", "run_model"} /\ no_key) =>
            /\ ~cli.router
            /\ session = "none"
            /\ pc = "idle"
            /\ tasks = <<>>
            /\ cli.requests = 0
            /\ cli.exit_status # Some(0)
            /\ (cli.stage = "exited" /\ cli.stderr \notin {<<"usage">>, <<"Usage">>}) =>
                   /\ cli.exit_status = Some(1)
                   /\ IF cli.script = "llm_switcher"
                      THEN cli.stdout =
                             <<[success |-> FALSE,
                                error |-> <<"OPENROUTER_API_KEY environment variable not set">>]>>
                      ELSE cli.stderr =
                             <<"Error: No API key found in OPENROUTER_API_KEY or OPENAI_API_KEY">>

\* C17 witness: the router CLI, started with an empty OPENROUTER_API_KEY (and
\* an OPENAI_API_KEY it does not read), has reported the missing key and
\* exited with status 1 without a router
RouterCliStoppedOnEmptyKey ==
    /\ cli.script = "llm_switcher"
    /\ cli.stage = "exited"
    /\ cli.env.OPENROUTER_API_KEY = "empty"
    /\ cli.env.OPENAI_API_KEY = "set"
    /\ cli.exit_status = Some(1)
    /\ Len(cli.stdout) = 1
    /\ ~cli.router

\* C22: when select_optimal_model returns on a catalog in which descriptors
\* of a tier have equal cost_per_token, no descriptor that comes earlier in
\* the tier's catalog order has the cost of the returned one and was as
\* eligible: among the descriptors that pass the filters for the ascending and
\* the descending operations, among the whole list for the fallback.
TiesKeepCatalogOrder ==
    (pc = "returned" /\ call.op = "select_optimal_model") =>
        LET lst == models[call.user_tier]
            passing == ApplyLength(ApplyBudget(lst, call.content_length,
                                               call.budget_constraint),
                                   call.content_length)
            candidates == IF passing = <<>> THEN lst ELSE passing
            at == CHOOSE k \in 1..Len(candidates) : candidates[k] = ret.value
        IN  /\ \E k \in 1..Len(candidates) : candidates[k] = ret.value
            /\ \A j \in 1..(at - 1) :
                   candidates[j].cost_per_token # ret.value.cost_per_token

\* C22 witness: a quality-first selection has returned the first of two
\* eligible descriptors of equal, highest cost
FirstOfEqualDearestSelected ==
    /\ pc = "returned"
    /\ call.op = "select_optimal_model"
    /\ call.operation = EXTRACT_INSIGHTS
    /\ call.budget_constraint = None
    /\ ret.value.name = "m1"
    /\ models[call.user_tier][3].cost_per_token = ret.value.cost_per_token
    /\ models[call.user_tier][3].max_tokens >= call.content_length
    /\ models[call.user_tier][2].cost_per_token < ret.value.cost_per_token

\* C23: a call of process_content makes at most one session.post and a batch
\* of N items at most N: the number of posts of the call in progress never
\* exceeds the number of its items that built a request, and a dispatch that
\* has returned a failure has made at most one.
OneRequestPerDispatch ==
    call.op \in {"process_content", "process_batch"} =>
        /\ posts <= Len(call.contents)
        /\ posts <= Cardinality({k \in 1..Len(tasks) : tasks[k].request # None})
        /\ posts >= Cardinality({k \in 1..Len(tasks) : tasks[k].state = "inflight"})
        /\ (pc = "returned" /\ call.op = "process_content") => posts <= 1

\* C23 witness: a dispatch whose provider answered 429 has returned its failed
\* result after one request
FailedDispatchPostedOnce ==
    /\ pc = "returned"
    /\ call.op = "process_content"
    /\ call.contents[1].fate = "http_error"
    /\ ret.kind = "return"
    /\ ~ret.value.success
    /\ posts = 1

\* C24: a dispatch that received a 200 response with a choice text returns,
\* for Summarize, the payload {text: raw content} also when the content is
\* valid JSON, and for Categorize, ExtractInsights and GenerateTags the parsed
\* value when the content is valid JSON.
ParsingOnlyForStructured ==
    \A k \in 1..Len(tasks) :
        (/\ tasks[k].response # None
         /\ tasks[k].response[1].status = "200"
         /\ tasks[k].response[1].decodes
         /\ tasks[k].response[1].choices = "present"
         /\ tasks[k].response[1].content # None) =>
            LET content == tasks[k].response[1].content[1]
                r == tasks[k].out.value
            IN  /\ tasks[k].out.kind = "return"
                /\ r.success
                /\ call.operation = SUMMARIZE =>
                       r.result = Some([form |-> "text", value |-> content.raw])
                /\ (call.operation # SUMMARIZE /\ content.json) =>
                       r.result = Some([form |-> "json", value |-> content.raw])

\* C24 witness: a Summarize dispatch whose response text is valid JSON has
\* returned it as text
SummarizeJsonReturnedAsText ==
    /\ pc = "returned"
    /\ call.op = "process_content"
    /\ call.operation = SUMMARIZE
    /\ tasks[1].response # None
    /\ tasks[1].response[1].content # None
    /\ tasks[1].response[1].content[1].json
    /\ ret.value.result = Some([form |-> "text", value |-> "{category: Business}"])

\* C27: a router creates at most one session: self.session only ever changes
\* from None to an open session and from an open session to a closed one, and
\* every request in flight is on the open session.
SessionCreatedAtMostOnce ==
    /\ [](\A k \in 1..Len(tasks) : tasks[k].state = "inflight" => session = "open")
    /\ [][session' # session =>
            \/ session = "none" /\ session' = "open"
            \/ session = "open" /\ session' = "closed"]_vars

\* C27 witness: the second chunk of a batch has two requests in flight on the
\* session the router holds
SecondChunkSharesSession ==
    /\ pc = "gather"
    /\ i = 5
    /\ Len(tasks) >= 7
    /\ session = "open"
    /\ tasks[1].request # None
    /\ tasks[6].state = "inflight"
    /\ tasks[7].state = "inflight"

\* C21: when check_quota_limits(user, tokens_needed, estimated_cost) returns,
\* can_proceed is false, with a reason, exactly when the user has no quota
\* record, or token_limit > 0 and used_tokens + tokens_needed > token_limit, or
\* cost_limit > 0 and used_cost + estimated_cost > cost_limit (counters as the
\* record holds them after the call); otherwise can_proceed is true and no
\* reason is given, so the unlimited tier (token_limit = -1) is never refused
\* on tokens; the usage history is never changed, and the record of a user
\* whose quota has not expired is not changed either.
QuotaCheckDecidesByLimits ==
    (qm.last.op = "check_quota_limits" /\ qm.last.out.kind = "return") =>
        LET user_id == qm.last.user_id
            before == qm.last.before.user_quotas[user_id]
            after == qm.db.user_quotas[user_id]
            verdict == qm.last.out.value
            refused ==
                \/ after = None
                \/ /\ after # None
                   /\ \/ /\ after[1].token_limit > 0
                         /\ after[1].used_tokens + qm.last.tokens > after[1].token_limit
                      \/ /\ after[1].cost_limit > 0
                         /\ after[1].used_cost + qm.last.cost > after[1].cost_limit
        IN  /\ verdict.can_proceed = ~refused
            /\ (verdict.reason # None) = refused
            /\ (after # None /\ after[1].token_limit = -1) =>
                   verdict.reason # Some("Token limit exceeded")
            /\ qm.db.usage_history = qm.last.before.usage_history
            /\ (before = None) = (after = None)
            /\ (before # None /\ qm.last.now <= before[1].reset_date) => after = before

\* witness of C21: a premium user (token_limit = -1) that has used 300000
\* tokens asks for 600000 more and may proceed
UnlimitedTierPassedCheck ==
    /\ qm.last.op = "check_quota_limits"
    /\ qm.last.out.kind = "return"
    /\ qm.last.tokens = 600000
    /\ qm.db.user_quotas[qm.last.user_id] # None
    /\ qm.db.user_quotas[qm.last.user_id][1].token_limit = -1
    /\ qm.db.user_quotas[qm.last.user_id][1].used_tokens >= 300000
    /\ qm.last.out.value.can_proceed

\* C25: update_usage is all-or-nothing: when it returns true for an existing
\* user, used_tokens has grown by exactly tokens_used, used_cost by exactly
\* cost, and exactly one history record with the given operation, model,
\* tokens and cost has been added; when it returns false the database is as
\* it was; tier, limits and reset_date are unchanged in both cases.
UpdateUsageAllOrNothing ==
    qm.last.op = "update_usage" =>
        LET user_id == qm.last.user_id
            before == qm.last.before.user_quotas[user_id]
            after == qm.db.user_quotas[user_id]
        IN  /\ ~qm.last.out.value => qm.db = qm.last.before
            /\ before # None =>
                /\ after # None
                /\ after[1].tier = before[1].tier
                /\ after[1].token_limit = before[1].token_limit
                /\ after[1].cost_limit = before[1].cost_limit
                /\ after[1].reset_date = before[1].reset_date
                /\ qm.last.out.value =>
                    /\ after[1].used_tokens = before[1].used_tokens + qm.last.tokens
                    /\ after[1].used_cost = before[1].used_cost + qm.last.cost
                    /\ qm.db.usage_history =
                           Append(qm.last.before.usage_history,
                                  HistoryRow(user_id, "categorize", "m",
                                             qm.last.tokens, qm.last.cost))
                    /\ \A u \in QuotaUsers \ {user_id} :
                           qm.db.user_quotas[u] = qm.last.before.user_quotas[u]

\* witness of C25: an update_usage of a user who has used tokens before
\* fails and returns false
FailedUpdateOfUsedQuota ==
    /\ qm.last.op = "update_usage"
    /\ ~qm.last.out.value
    /\ qm.last.before.user_quotas[qm.last.user_id] # None
    /\ qm.last.before.user_quotas[qm.last.user_id][1].used_tokens > 0
    /\ Len(qm.last.before.usage_history) > 0

\* C26: get_user_quota returns on every call and tries at most one reset: for
\* a user whose reset_date has passed the record has zero counters and a
\* reset_date 30 days ahead when it returns, a quota it returns is never
\* expired, also when reset_user_quota fails; for a user without a record it
\* returns nothing and changes nothing.
GetUserQuotaReturnsAfterOneReset ==
    qm.last.op = "get_user_quota" =>
        LET user_id == qm.last.user_id
            before == qm.last.before.user_quotas[user_id]
            after == qm.db.user_quotas[user_id]
        IN  /\ qm.last.out.kind = "return"
            /\ qm.last.attempts <= 1
            /\ before = None => (qm.last.out.value = None /\ qm.db = qm.last.before)
            /\ before # None =>
                /\ qm.last.out.value # None
                /\ qm.last.out.value[1].reset_date >= qm.last.now
                /\ qm.last.now > before[1].reset_date =>
                    /\ after[1].used_tokens = 0
                    /\ after[1].used_cost = 0
                    /\ after[1].reset_date = qm.last.now + Period

\* C28: every record of the usage history belongs to a user that has a quota
\* record: update_usage for a user without one adds no history record and
\* does not report success.
HistoryBelongsToQuotaUsers ==
    /\ \A k \in 1..Len(qm.db.usage_history) :
           qm.db.user_quotas[qm.db.usage_history[k].user_id] # None
    /\ (qm.last.op = "update_usage"
        /\ qm.last.before.user_quotas[qm.last.user_id] = None) =>
           (~qm.last.out.value /\ qm.db = qm.last.before)

\* C29: when every client records a usage only after check_quota_limits let
\* that usage pass, the used_tokens of a user with token_limit > 0 never
\* exceed token_limit and used_cost never exceeds cost_limit, under every
\* interleaving of the clients within one billing period.
CheckedUsageStaysWithinLimits ==
    \A u \in QuotaUsers :
        qm.db.user_quotas[u] # None =>
            LET row == qm.db.user_quotas[u][1]
            IN  /\ row.token_limit > 0 => row.used_tokens <= row.token_limit
                /\ row.cost_limit > 0 => row.used_cost <= row.cost_limit

====
